---- MODULE Spec2Model ----
(***************************************************************************)
(* A model of feoblog's HTTP server core (src/src/server.rs): the          *)
(* ingestion handler put_item, the single-item read get_item, and the      *)
(* page reads (index, get_user_feed through Paginator, get_user_items).    *)
(*                                                                         *)
(* A byte string is a sequence of chunks.  A chunk is a run of bytes, a    *)
(* record [k, ts, n]: n is its length in bytes, and k and ts are what the  *)
(* protobuf decoder reads from it (the item's payload type and its         *)
(* timestamp_ms_utc) when it is the first chunk of a byte string.          *)
(* Option<T> is a sequence of at most one element.                         *)
(***************************************************************************)
EXTENDS Integers, Sequences, FiniteSets, TLC

\* ------------------------------------------------------------------ bounds

\* Chunks a request body stream delivers at most before it ends or fails.
MaxChunks == 2

\* Rows of the timelines built row by row from every payload type.
MaxRows == 3

\* The scenario timeline: this many posts and this many profile updates.
ScenarioPosts == 25
ScenarioProfiles == 5

\* The long timeline: this many posts, more than the largest page.
LongPosts == 101

\* ------------------------------------------------------- program constants

MAX_ITEM_SIZE == 32768

\* ------------------------------------------------------------------- data

None == <<>>
Some(v) == <<v>>
IsSome(o) == Len(o) = 1
Unwrap(o) == o[1]

\* The two concurrent request slots of the server.
Procs == {"r1", "r2"}

Users == {"alice", "bob"}

\* The chunks clients send: a one-byte post, a post that fills the size cap,
\* an item that decodes but fails structural validation, and bytes that do
\* not decode.
ClientChunks ==
  { [k |-> "post",    ts |-> 1, n |-> 1],
    [k |-> "post",    ts |-> 2, n |-> MAX_ITEM_SIZE],
    [k |-> "invalid", ts |-> 1, n |-> 1],
    [k |-> "garbage", ts |-> 0, n |-> 1] }

RECURSIVE ByteLen(_)
\* bytes.len(): the number of bytes of a byte string.
ByteLen(bytes) ==
  IF bytes = <<>> THEN 0 ELSE Head(bytes).n + ByteLen(Tail(bytes))

\* The documents whose signatures clients hold.
SignedDocs ==
  { <<c>> : c \in ClientChunks } \cup
  { << [k |-> "post", ts |-> 2, n |-> MAX_ITEM_SIZE],
       [k |-> "post", ts |-> 1, n |-> 1] >> }

\* The signature a user's private key produces over a byte string.
Sign(u, bytes) == <<u, bytes>>

\* A well-formed signature that verifies for no user and no bytes.
BogusSig == <<"", <<>>>>

\* The signatures a request path may carry: alice's over each signed
\* document, bob's over the one-byte post, and the bogus one.
ClaimedSigs ==
  { Sign("alice", d) : d \in SignedDocs } \cup
  { Sign("bob", << [k |-> "post", ts |-> 1, n |-> 1] >>), BogusSig }

\* Signature::is_valid(&user, &bytes)
is_valid(sig, u, bytes) == sig = Sign(u, bytes)

\* Item::merge_from_bytes: Err (None) on bytes that do not decode, else the
\* decoded Item.  The empty byte string decodes to the default Item.
merge_from_bytes(bytes) ==
  IF bytes = <<>>
    THEN Some([item_type |-> None, timestamp_ms_utc |-> 0, well_formed |-> FALSE])
  ELSE IF Head(bytes).k = "garbage" THEN None
  ELSE Some([item_type |-> IF Head(bytes).k \in {"post", "profile"}
                             THEN Some(Head(bytes).k) ELSE None,
             timestamp_ms_utc |-> Head(bytes).ts,
             well_formed |-> Head(bytes).k # "invalid"])

\* Item::validate (ProtoValid)
validate(item) == item.well_formed

\* The Content-Length headers a request may carry.
Headers ==
  { [present |-> FALSE, parses |-> FALSE, value |-> 0],
    [present |-> TRUE,  parses |-> FALSE, value |-> 0],
    [present |-> TRUE,  parses |-> TRUE,  value |-> 1],
    [present |-> TRUE,  parses |-> TRUE,  value |-> MAX_ITEM_SIZE],
    [present |-> TRUE,  parses |-> TRUE,  value |-> MAX_ITEM_SIZE + 1],
    [present |-> TRUE,  parses |-> TRUE,  value |-> 40000] }

QuotaReasons == {"quota exceeded"}

\* ---------------------------------------------------------------- state

VARIABLES
  known,      \* backend: the users user_known answers true for
  store,      \* backend: the persisted ItemRows
  now,        \* the server clock, Timestamp::now()
  pc,         \* per request: the statement put_item is at
  user,       \* per request: the UserID of the path
  signature,  \* per request: the Signature of the path
  length,     \* per request: the Content-Length header
  bytes,      \* per request: the body bytes accumulated (kept once saved)
  response,   \* per request: the response put_item returned
  calls,      \* per request: the backend operations and body polls, in order
  timeline,   \* backend: the rows a page query walks, most recent first
  ppc,        \* page request: the statement the handler is at
  endpoint,   \* page request: the handler, "index", "feed" or "user"
  pagination, \* page request: the Pagination query, [before, count]
  pos,        \* page request: the next row the backend is to deliver
  items,      \* page request: the page items accumulated so far
  has_more,   \* page request: the accumulator's has_more flag
  page,       \* page request: the IndexPage returned
  shown,      \* the items of all pages rendered since the first request
  fromStart   \* whether the first request carried no before cursor

putVars == <<known, store, now, pc, user, signature, length, bytes, response, calls>>
pageVars == <<timeline, ppc, endpoint, pagination, pos, items, has_more, page,
              shown, fromStart>>
vars == <<putVars, pageVars>>

\* ------------------------------------------------------------- responses

NoHeader == [present |-> FALSE, parses |-> FALSE, value |-> 0]

NoResponse == [outcome |-> "none", status |-> 0, message |-> "", n |-> 0, body |-> <<>>]

\* An HttpResponse built by one of the HttpResponse::Xxx() builders.
HttpResponse(outcome, status, message) ==
  [outcome |-> outcome, status |-> status, message |-> message, n |-> 0, body |-> <<>>]

\* The server's Error type: its ResponseError impl overrides nothing, so
\* every Err a handler returns is answered 500 Internal Server Error.
ErrorStatus == 500
ErrorResponse(outcome, message) == HttpResponse(outcome, ErrorStatus, message)

\* ----------------------------------------------------- backend contract

\* The rows stored under (user, signature).
RowsOf(st, u, sig) == { r \in st : r.user = u /\ r.signature = sig }

\* Backend::user_item_exists
user_item_exists(st, u, sig) == RowsOf(st, u, sig) # {}

\* Backend::user_known
user_known(kn, u) == u \in kn

\* Backend::user_item: Option<ItemRow>
user_item(st, u, sig) ==
  IF RowsOf(st, u, sig) = {} THEN None
  ELSE Some(CHOOSE r \in RowsOf(st, u, sig) : TRUE)

\* Backend::save_user_item: the store after the row is written; a row is
\* keyed by (user, signature).
save_user_item(st, row) == (st \ RowsOf(st, row.user, row.signature)) \cup {row}

\* ------------------------------------------------------------- put_item

\* if length > MAX_ITEM_SIZE
TooLargeOffByOne(len) == len >= MAX_ITEM_SIZE
TooLarge(len) == len > MAX_ITEM_SIZE

\* The checks of the Content-Length header, before the backend is opened:
\* the early response, or None to go on.
HeaderCheck(h) ==
  IF ~h.present
    THEN Some(HttpResponse("length-required", 411, "Must include length header."))
  ELSE IF ~h.parses
    THEN Some(HttpResponse("bad-length", 400, "Error parsing Length header."))
  ELSE IF TooLarge(h.value)
    THEN Some(HttpResponse("too-large", 413, "Item must be <= 32768 bytes"))
  ELSE None

\* What follows the body read, up to the quota check: the signature check,
\* then the decoding and the structural validation of the item.  The Err
\* response, or None when the bytes pass.
VerifyAndDecodeDecodesFirst(sig, u, body) ==
  IF merge_from_bytes(body) = None
    THEN Some(ErrorResponse("invalid-item", "decode error"))
  ELSE IF ~validate(Unwrap(merge_from_bytes(body)))
    THEN Some(ErrorResponse("invalid-item", "validation error"))
  ELSE IF ~is_valid(sig, u, body)
    THEN Some(ErrorResponse("invalid-signature", "Invalid signature"))
  ELSE None
VerifyAndDecode(sig, u, body) ==
  IF ~is_valid(sig, u, body)
    THEN Some(ErrorResponse("invalid-signature", "Invalid signature"))
  ELSE IF merge_from_bytes(body) = None
    THEN Some(ErrorResponse("invalid-item", "decode error"))
  ELSE IF ~validate(Unwrap(merge_from_bytes(body)))
    THEN Some(ErrorResponse("invalid-item", "validation error"))
  ELSE None

\* The ItemRow put_item builds from the verified bytes.
ItemRow(u, sig, body, clock) ==
  [user |-> u, signature |-> sig,
   timestamp |-> Unwrap(merge_from_bytes(body)).timestamp_ms_utc,
   received |-> clock,
   item_bytes |-> body]

\* The handler goes on to its next statement.
Goto(p, next) == pc' = [pc EXCEPT ![p] = next] /\ UNCHANGED <<response, bytes>>
\* The handler invokes a backend operation or polls the body stream.
Call(p, op) == calls' = [calls EXCEPT ![p] = Append(@, op)]
\* The handler returns: the response goes out and the body buffer is dropped.
Return(p, r) ==
  /\ pc' = [pc EXCEPT ![p] = "done"]
  /\ response' = [response EXCEPT ![p] = r]
  /\ bytes' = [bytes EXCEPT ![p] = <<>>]
BackendError(p) == Return(p, ErrorResponse("backend-error", "backend error"))

\* put_item, from the decoding of the path to the size check.
PutBegin(p) ==
  /\ pc[p] = "idle"
  /\ \E pathOk \in BOOLEAN, u \in Users, sig \in ClaimedSigs, h \in Headers :
       IF ~pathOk
         THEN /\ Return(p, ErrorResponse("bad-path", "decoding user ID"))
              /\ UNCHANGED <<user, signature, length>>
         ELSE /\ user' = [user EXCEPT ![p] = u]
              /\ signature' = [signature EXCEPT ![p] = sig]
              /\ length' = [length EXCEPT ![p] = h]
              /\ IF HeaderCheck(h) # None
                   THEN Return(p, Unwrap(HeaderCheck(h)))
                   ELSE Goto(p, "open")
  /\ UNCHANGED <<known, store, now, calls, pageVars>>

\* let mut backend = data.backend_factory.open().compat()?;
PutOpen(p) ==
  /\ pc[p] = "open"
  /\ Call(p, "open")
  /\ \E ok \in BOOLEAN :
       IF ok THEN Goto(p, "exists")
             ELSE BackendError(p)
  /\ UNCHANGED <<known, store, now, user, signature, length, pageVars>>

\* if backend.user_item_exists(&user, &signature).compat()? { 202 }
PutExistsSkipped(p) ==
  /\ pc[p] = "exists"
  /\ Call(p, "user_item_exists")
  /\ \E ok \in BOOLEAN :
       IF ~ok THEN BackendError(p) ELSE Goto(p, "known")
  /\ UNCHANGED <<known, store, now, user, signature, length, pageVars>>
PutExistsChecksKnown(p) ==
  /\ pc[p] = "exists"
  /\ Call(p, "user_item_exists")
  /\ \E ok \in BOOLEAN :
       IF ~ok THEN BackendError(p)
       ELSE IF ~user_known(known, user[p])
         THEN Return(p, HttpResponse("forbidden", 403, "Unknown user ID"))
       ELSE IF user_item_exists(store, user[p], signature[p])
         THEN Return(p, HttpResponse("already-exists", 202, "Item already exists"))
       ELSE Goto(p, "known")
  /\ UNCHANGED <<known, store, now, user, signature, length, pageVars>>
PutExists(p) ==
  /\ pc[p] = "exists"
  /\ Call(p, "user_item_exists")
  /\ \E ok \in BOOLEAN :
       IF ~ok THEN BackendError(p)
       ELSE IF user_item_exists(store, user[p], signature[p])
         THEN Return(p, HttpResponse("already-exists", 202, "Item already exists"))
       ELSE Goto(p, "known")
  /\ UNCHANGED <<known, store, now, user, signature, length, pageVars>>

\* if !backend.user_known(&user).compat()? { 403 }
PutKnown(p) ==
  /\ pc[p] = "known"
  /\ Call(p, "user_known")
  /\ \E ok \in BOOLEAN :
       IF ~ok THEN BackendError(p)
       ELSE IF ~user_known(known, user[p])
         THEN Return(p, HttpResponse("forbidden", 403, "Unknown user ID"))
       ELSE Goto(p, "read")
  /\ UNCHANGED <<known, store, now, user, signature, length, pageVars>>

\* while let Some(chunk) = body.next().await { bytes.extend_from_slice(..) }
\* One poll of the body stream: a chunk, an error, or the end of the stream,
\* after which the signature is verified and the item decoded and validated.
PutRead(p) ==
  /\ pc[p] = "read"
  /\ Call(p, "body.next")
  /\ \/ \E chunk \in ClientChunks :
          /\ Len(bytes[p]) < MaxChunks
          /\ bytes' = [bytes EXCEPT ![p] = Append(@, chunk)]
          /\ UNCHANGED <<pc, response>>
     \/ Return(p, ErrorResponse("body-error", "Error parsing chunk"))
     \/ IF VerifyAndDecode(signature[p], user[p], bytes[p]) # None
          THEN Return(p, Unwrap(VerifyAndDecode(signature[p], user[p], bytes[p])))
          ELSE Goto(p, "quota")
  /\ UNCHANGED <<known, store, now, user, signature, length, pageVars>>

\* if let Some(deny_reason) = backend.quota_check_item(..).compat()? { 507 }
PutQuotaAfterSave(p) ==
  /\ pc[p] = "quota"
  /\ Call(p, "quota_check_item")
  /\ \/ BackendError(p) /\ UNCHANGED store
     \/ \E deny_reason \in QuotaReasons :
          /\ Return(p, HttpResponse("quota-denied", 507, deny_reason))
          /\ store' = save_user_item(store, ItemRow(user[p], signature[p], bytes[p], now))
     \/ Goto(p, "save") /\ UNCHANGED store
  /\ UNCHANGED <<known, now, user, signature, length, pageVars>>
PutQuotaGenericMessage(p) ==
  /\ pc[p] = "quota"
  /\ Call(p, "quota_check_item")
  /\ \/ BackendError(p)
     \/ \E deny_reason \in QuotaReasons :
          Return(p, HttpResponse("quota-denied", 507, "Insufficient Storage"))
     \/ Goto(p, "save")
  /\ UNCHANGED <<known, store, now, user, signature, length, pageVars>>
PutQuota(p) ==
  /\ pc[p] = "quota"
  /\ Call(p, "quota_check_item")
  /\ \/ BackendError(p)
     \/ \E deny_reason \in QuotaReasons :
          Return(p, HttpResponse("quota-denied", 507, deny_reason))
     \/ Goto(p, "save")
  /\ UNCHANGED <<known, store, now, user, signature, length, pageVars>>

\* The response to a saved item: 201 with the byte count.
Created(body) ==
  [HttpResponse("created", 201, "OK. Received {} bytes.") EXCEPT !.n = ByteLen(body)]

\* let row = ItemRow{..}; backend.save_user_item(&row, &item)?; 201
PutSave(p) ==
  /\ pc[p] = "save"
  /\ Call(p, "save_user_item")
  /\ now' = now + 1
  /\ \/ BackendError(p) /\ UNCHANGED store
     \/ /\ store' = save_user_item(store, ItemRow(user[p], signature[p], bytes[p], now))
        /\ pc' = [pc EXCEPT ![p] = "done"]
        /\ response' = [response EXCEPT ![p] = Created(bytes[p])]
        /\ UNCHANGED bytes
  /\ UNCHANGED <<known, user, signature, length, pageVars>>

\* ------------------------------------------------------------- get_item

\* The response of get_item to what user_item returned.
ItemResponseDropsBody(found) ==
  IF found = None
    THEN HttpResponse("not-found", 404, "No such item")
    ELSE HttpResponse("found", 200, "")
ItemResponse(found) ==
  IF found = None
    THEN HttpResponse("not-found", 404, "No such item")
    ELSE [HttpResponse("found", 200, "") EXCEPT !.body = Unwrap(found).item_bytes]

\* get_item: one read of the backend.
GetBegin(p) ==
  /\ pc[p] = "idle"
  /\ \E u \in Users, sig \in ClaimedSigs :
       /\ user' = [user EXCEPT ![p] = u]
       /\ signature' = [signature EXCEPT ![p] = sig]
       /\ calls' = [calls EXCEPT ![p] = <<"open", "user_item">>]
       /\ \/ BackendError(p)
          \/ Return(p, ItemResponse(user_item(store, u, sig)))
  /\ UNCHANGED <<known, store, now, length, pageVars>>

get_item(p) == GetBegin(p)

\* ------------------------------------------------------------ page reads

\* fn bound(input, lower, upper) = min(max(lower, input), upper)
boundNoLower(input, lower, upper) == IF input < upper THEN input ELSE upper
boundNoUpper(input, lower, upper) == IF lower > input THEN lower ELSE input
bound(input, lower, upper) ==
  LET m == IF lower > input THEN lower ELSE input
  IN  IF m < upper THEN m ELSE upper

\* pagination.count.map(|c| bound(c, 1, 100)).unwrap_or(20)
max_items(count) == IF IsSome(count) THEN bound(Unwrap(count), 1, 100) ELSE 20

\* fn display_by_default(item: &Item) -> bool
display_by_defaultShowsProfiles(item) == item.item_type # None
display_by_defaultShowsUnknown(item) ==
  IF item.item_type = None THEN TRUE ELSE Unwrap(item.item_type) = "post"
display_by_default(item) ==
  IF item.item_type = None THEN FALSE
  ELSE IF Unwrap(item.item_type) = "post" THEN TRUE
  ELSE FALSE

\* An IndexPageItem{row, item}.
IndexPageItem(row, item) == [row |-> row, item |-> item]

\* The item_callback closure of index, on one row: the items and has_more
\* it leaves and what it returns (Ok(true), Ok(false) or Err).
IndexCallbackOffByOne(max, its, hm, row) ==
  LET item == merge_from_bytes(row.item_bytes) IN
  IF item = None
    THEN [items |-> its, has_more |-> hm, ret |-> "error"]
  ELSE IF ~display_by_default(Unwrap(item))
    THEN [items |-> its, has_more |-> hm, ret |-> "continue"]
  ELSE IF Len(its) > max
    THEN [items |-> its, has_more |-> TRUE, ret |-> "stop"]
  ELSE [items |-> Append(its, IndexPageItem(row, Unwrap(item))),
        has_more |-> hm, ret |-> "continue"]
IndexCallback(max, its, hm, row) ==
  LET item == merge_from_bytes(row.item_bytes) IN
  IF item = None
    THEN [items |-> its, has_more |-> hm, ret |-> "error"]
  ELSE IF ~display_by_default(Unwrap(item))
    THEN [items |-> its, has_more |-> hm, ret |-> "continue"]
  ELSE IF Len(its) >= max
    THEN [items |-> its, has_more |-> TRUE, ret |-> "stop"]
  ELSE [items |-> Append(its, IndexPageItem(row, Unwrap(item))),
        has_more |-> hm, ret |-> "continue"]

\* The mapper and the filter get_user_feed gives its Paginator.
FeedMapper(row) ==
  LET item == merge_from_bytes(row.item_bytes) IN
  IF item = None THEN None ELSE Some(IndexPageItem(row, Unwrap(item)))
FeedFilter(page_item) == display_by_default(page_item.item)

\* Paginator::accept, on one input.
PaginatorAcceptSkipsFilter(options, its, hm, input) ==
  LET max_len == max_items(options.count)
      item == FeedMapper(input) IN
  IF item = None
    THEN [items |-> its, has_more |-> hm, ret |-> "error"]
  ELSE IF Len(its) >= max_len
    THEN [items |-> its, has_more |-> TRUE, ret |-> "stop"]
  ELSE IF ~FeedFilter(Unwrap(item))
    THEN [items |-> its, has_more |-> hm, ret |-> "continue"]
  ELSE [items |-> Append(its, Unwrap(item)), has_more |-> hm, ret |-> "continue"]
PaginatorAcceptStopsOnce(options, its, hm, input) ==
  LET max_len == max_items(options.count)
      item == FeedMapper(input) IN
  IF item = None
    THEN [items |-> its, has_more |-> hm, ret |-> "error"]
  ELSE IF ~FeedFilter(Unwrap(item))
    THEN [items |-> its, has_more |-> hm, ret |-> "continue"]
  ELSE IF Len(its) >= max_len /\ ~hm
    THEN [items |-> its, has_more |-> TRUE, ret |-> "stop"]
  ELSE [items |-> Append(its, Unwrap(item)), has_more |-> hm, ret |-> "continue"]
PaginatorAccept(options, its, hm, input) ==
  LET max_len == max_items(options.count)
      item == FeedMapper(input) IN
  IF item = None
    THEN [items |-> its, has_more |-> hm, ret |-> "error"]
  ELSE IF ~FeedFilter(Unwrap(item))
    THEN [items |-> its, has_more |-> hm, ret |-> "continue"]
  ELSE IF Len(its) >= max_len
    THEN [items |-> its, has_more |-> TRUE, ret |-> "stop"]
  ELSE [items |-> Append(its, Unwrap(item)), has_more |-> hm, ret |-> "continue"]

\* The display_message of index and Paginator::message.
message(its, options) ==
  IF its = <<>>
    THEN IF options.before = None
           THEN Some("Nothing to display")
           ELSE Some("No more items to display.")
    ELSE None

\* The display_message of index.
IndexMessage(its, options) ==
  IF its = <<>>
    THEN IF options.before = None
           THEN Some("Nothing to display")
           ELSE Some("No more items to display.")
    ELSE None

\* The "More" link of index: its query parameters.
IndexMoreLink(its, hm, options) ==
  IF hm /\ its # <<>>
    THEN Some([before |-> its[Len(its)].item.timestamp_ms_utc,
               count |-> IF IsSome(options.count)
                           THEN Some(max_items(options.count)) ELSE None])
    ELSE None

\* Paginator::more_items_link: its query parameters.
more_items_linkFirstItem(its, hm, options) ==
  IF ~hm THEN None
  ELSE IF its = <<>> THEN None
  ELSE Some([before |-> its[1].item.timestamp_ms_utc, count |-> options.count])
more_items_link(its, hm, options) ==
  IF ~hm THEN None
  ELSE IF its = <<>> THEN None
  ELSE Some([before |-> its[Len(its)].item.timestamp_ms_utc,
             count |-> options.count])

\* Backend::homepage_items / user_feed_items: the rows before max_time, in
\* the order the backend delivers them.
Query(rows, max_time) == SelectSeq(rows, LAMBDA r : r.timestamp < max_time)

\* pagination.before.map(..).unwrap_or_else(|| Timestamp::now())
max_time(options, clock) ==
  IF IsSome(options.before) THEN Unwrap(options.before) ELSE clock

NoPage == [status |-> 0, items |-> <<>>, display_message |-> None, more |-> None]
ErrorPage == [status |-> ErrorStatus, items |-> <<>>, display_message |-> None,
              more |-> None]
IndexPage(its, msg, more) ==
  [status |-> 200, items |-> its, display_message |-> msg, more |-> more]

\* The timelines a page request may find.  A row carries the bytes of an
\* item of payload type k declared at time ts; its length i tells rows of
\* one time and type apart.
RowKinds == {"post", "profile", "unknown", "garbage"}

StoredRow(i, ts, k) ==
  LET b == << [k |-> k, ts |-> ts, n |-> i] >>
  IN  [user |-> "alice", signature |-> Sign("alice", b), timestamp |-> ts,
       received |-> ts, item_bytes |-> b]

RECURSIVE Drop(_, _)
\* How far the timestamp of row i lies below that of row 1.
Drop(ds, i) == IF i < 2 THEN 0 ELSE ds[i] + Drop(ds, i - 1)

\* Every timeline of at most MaxRows rows: any payload types, each row at
\* the time of the row before it or one millisecond earlier.
SmallTimelines ==
  UNION { { [i \in 1..n |-> StoredRow(i, n - Drop(ds, i), ks[i])] :
              ks \in [1..n -> RowKinds], ds \in [2..n -> {0, 1}] } :
          n \in 0..MaxRows }

\* A timeline of posts at distinct times with profile updates spread
\* evenly among them.
Feed(nPosts, nProfiles) ==
  LET n == nPosts + nProfiles
      g == IF nProfiles = 0 THEN n + 1 ELSE n \div nProfiles
  IN  [i \in 1..n |->
         StoredRow(i, n - i + 1,
                   IF i % g = 0 /\ i \div g <= nProfiles THEN "profile" ELSE "post")]

ScenarioTimeline == Feed(ScenarioPosts, ScenarioProfiles)
LongTimeline == Feed(LongPosts, 0)

Timelines == SmallTimelines \cup {ScenarioTimeline, LongTimeline}

\* The query parameters of a first request.
Counts == {None, Some(0), Some(1), Some(2), Some(100), Some(150)}
Befores == {None, Some(1), Some(3)}

\* A handler opens the backend and hands it its callback: index up to
\* homepage_items, get_user_feed up to user_feed_items.
PageBegin(ep, options) ==
  /\ endpoint' = ep
  /\ pagination' = options
  /\ pos' = 1
  /\ items' = <<>>
  /\ has_more' = FALSE
  /\ \/ ppc' = "scan" /\ page' = NoPage
     \/ ppc' = "done" /\ page' = ErrorPage
  /\ UNCHANGED <<putVars, timeline>>

IndexStart ==
  /\ ppc = "idle"
  /\ \E b \in Befores, c \in Counts :
       /\ PageBegin("index", [before |-> b, count |-> c])
       /\ fromStart' = (b = None)
  /\ shown' = <<>>

FeedStart ==
  /\ ppc = "idle"
  /\ \E b \in Befores, c \in Counts :
       /\ PageBegin("feed", [before |-> b, count |-> c])
       /\ fromStart' = (b = None)
  /\ shown' = <<>>

\* The backend delivers its next row to the callback, or has none left.
DeliverSkipsError(r) ==
  /\ items' = r.items
  /\ has_more' = r.has_more
  /\ IF r.ret = "stop" THEN ppc' = "render" /\ UNCHANGED <<pos, page>>
     ELSE pos' = pos + 1 /\ UNCHANGED <<ppc, page>>
Deliver(r) ==
  /\ items' = r.items
  /\ has_more' = r.has_more
  /\ IF r.ret = "continue" THEN pos' = pos + 1 /\ UNCHANGED <<ppc, page>>
     ELSE IF r.ret = "stop" THEN ppc' = "render" /\ UNCHANGED <<pos, page>>
     ELSE ppc' = "done" /\ page' = ErrorPage /\ UNCHANGED pos

Exhausted == ppc' = "render" /\ UNCHANGED <<pos, items, has_more, page>>

IndexScan ==
  /\ ppc = "scan" /\ endpoint = "index"
  /\ LET q == Query(timeline, max_time(pagination, now)) IN
       IF pos > Len(q) THEN Exhausted
       ELSE Deliver(IndexCallback(max_items(pagination.count), items, has_more, q[pos]))
  /\ UNCHANGED <<putVars, timeline, endpoint, pagination, shown, fromStart>>

FeedScan ==
  /\ ppc = "scan" /\ endpoint = "feed"
  /\ LET q == Query(timeline, max_time(pagination, now)) IN
       IF pos > Len(q) THEN Exhausted
       ELSE Deliver(PaginatorAccept(pagination, items, has_more, q[pos]))
  /\ UNCHANGED <<putVars, timeline, endpoint, pagination, shown, fromStart>>

\* index, after homepage_items returned: the IndexPage.
IndexRender ==
  /\ ppc = "render" /\ endpoint = "index"
  /\ page' = IndexPage(items, IndexMessage(items, pagination),
                       IndexMoreLink(items, has_more, pagination))
  /\ shown' = shown \o items
  /\ ppc' = "done"
  /\ UNCHANGED <<putVars, timeline, endpoint, pagination, pos, items, has_more,
                 fromStart>>

\* get_user_feed, after user_feed_items returned: the IndexPage.
FeedRender ==
  /\ ppc = "render" /\ endpoint = "feed"
  /\ page' = IndexPage(items, message(items, pagination),
                       more_items_link(items, has_more, pagination))
  /\ shown' = shown \o items
  /\ ppc' = "done"
  /\ UNCHANGED <<putVars, timeline, endpoint, pagination, pos, items, has_more,
                 fromStart>>

\* The reader follows the "More" link of the page: the same handler, with
\* the link's query parameters.
FollowMore ==
  /\ ppc = "done" /\ page.status = 200 /\ IsSome(page.more)
  /\ PageBegin(endpoint, [before |-> Some(Unwrap(page.more).before),
                          count |-> Unwrap(page.more).count])
  /\ UNCHANGED <<shown, fromStart>>

\* get_user_items: let max_items = 10;
user_max_items == 10

\* The collect_items closure of get_user_items, on one row: the items it
\* leaves and what it returns (Ok(items.len() < max_items) or Err).
collect_items(max, its, row) ==
  LET item == merge_from_bytes(row.item_bytes) IN
  IF item = None
    THEN [items |-> its, has_more |-> FALSE, ret |-> "error"]
  ELSE LET kept == IF display_by_default(Unwrap(item))
                     THEN Append(its, IndexPageItem(row, Unwrap(item)))
                     ELSE its
       IN  [items |-> kept, has_more |-> FALSE,
            ret |-> IF Len(kept) < max THEN "continue" ELSE "stop"]

\* Backend::user_profile: the user's most recent profile update, if any.
user_profile(rows) ==
  LET profiles == SelectSeq(rows, LAMBDA r : Head(r.item_bytes).k = "profile")
  IN  IF profiles = <<>> THEN None ELSE Some(Head(profiles))

\* get_user_items up to user_items: no query parameters, max_time is now.
UserStart ==
  /\ ppc = "idle"
  /\ PageBegin("user", [before |-> None, count |-> None])
  /\ fromStart' = TRUE
  /\ shown' = <<>>

UserScan ==
  /\ ppc = "scan" /\ endpoint = "user"
  /\ LET q == Query(timeline, now) IN
       IF pos > Len(q) THEN Exhausted
       ELSE Deliver(collect_items(user_max_items, items, q[pos]))
  /\ UNCHANGED <<putVars, timeline, endpoint, pagination, shown, fromStart>>

\* get_user_items, after user_items returned: the profile is read for the
\* navigation, then the IndexPage is built, display_message: None.
UserRender ==
  /\ ppc = "render" /\ endpoint = "user"
  /\ ppc' = "done"
  /\ \/ page' = ErrorPage /\ UNCHANGED shown
     \/ LET profile == user_profile(timeline) IN
          IF IsSome(profile) /\ merge_from_bytes(Unwrap(profile).item_bytes) = None
            THEN page' = ErrorPage /\ UNCHANGED shown
            ELSE page' = IndexPage(items, None, None) /\ shown' = shown \o items
  /\ UNCHANGED <<putVars, timeline, endpoint, pagination, pos, items, has_more,
                 fromStart>>

\* The callback an endpoint hands to its backend query, on one row.
Callback(ep, options, its, hm, row) ==
  IF ep = "index" THEN IndexCallback(max_items(options.count), its, hm, row)
  ELSE IF ep = "feed" THEN PaginatorAccept(options, its, hm, row)
  ELSE collect_items(user_max_items, its, row)

\* A backend that does not honour the callback's stop: after the callback
\* returned Ok(false) on row pos it delivers the next row all the same.
ScanAfterStop ==
  /\ ppc = "render" /\ endpoint \in {"index", "feed"}
  /\ LET q == Query(timeline, max_time(pagination, now)) IN
       /\ pos < Len(q)
       /\ LET r == Callback(endpoint, pagination, items, has_more, q[pos + 1]) IN
            /\ items' = r.items
            /\ has_more' = r.has_more
            /\ IF r.ret = "continue" THEN ppc' = "scan" /\ pos' = pos + 2 /\ UNCHANGED page
               ELSE IF r.ret = "stop" THEN pos' = pos + 1 /\ UNCHANGED <<ppc, page>>
               ELSE ppc' = "done" /\ page' = ErrorPage /\ pos' = pos + 1
  /\ UNCHANGED <<putVars, timeline, endpoint, pagination, shown, fromStart>>

\* ------------------------------------------------------- specification

PutInit ==
  /\ known = {"alice"}
  /\ pc = [p \in Procs |-> "idle"]
  /\ user = [p \in Procs |-> ""]
  /\ signature = [p \in Procs |-> BogusSig]
  /\ length = [p \in Procs |-> NoHeader]
  /\ bytes = [p \in Procs |-> <<>>]
  /\ response = [p \in Procs |-> NoResponse]
  /\ calls = [p \in Procs |-> <<>>]

PageIdle ==
  /\ ppc = "idle"
  /\ endpoint = "index"
  /\ pagination = [before |-> None, count |-> None]
  /\ pos = 1
  /\ items = <<>>
  /\ has_more = FALSE
  /\ page = NoPage
  /\ shown = <<>>
  /\ fromStart = FALSE

\* The server after construction: an empty store, no request in flight.
Init ==
  /\ PutInit
  /\ PageIdle
  /\ store = {}
  /\ timeline = <<>>
  /\ now = 1

put_item(p) ==
  \/ PutBegin(p)
  \/ PutOpen(p)
  \/ PutExists(p)
  \/ PutKnown(p)
  \/ PutRead(p)
  \/ PutQuota(p)
  \/ PutSave(p)

Next == \E p \in Procs : put_item(p) \/ get_item(p)

\* Requests that write and read single items, handled concurrently: the
\* steps of two requests interleave at every backend call and body poll.
Spec == Init /\ [][Next]_vars

\* No other request is in flight.
Alone(p) == \A q \in Procs \ {p} : pc[q] \in {"idle", "done"}

\* A client that sends each request after the response to the one before.
PutStart(p) == Alone(p) /\ PutBegin(p)
GetStart(p) == Alone(p) /\ GetBegin(p)

SeqNext ==
  \E p \in Procs :
    \/ PutStart(p)
    \/ PutOpen(p)
    \/ PutExists(p)
    \/ PutKnown(p)
    \/ PutRead(p)
    \/ PutQuota(p)
    \/ PutSave(p)
    \/ GetStart(p)

\* The same requests, in sequence.
SpecSeq == Init /\ [][SeqNext]_vars

\* The backend's administrator withdraws a user: user_known answers false
\* for the user from now on, the rows stored for the user stay.
ForgetUser ==
  /\ \E u \in known : known' = known \ {u}
  /\ UNCHANGED <<store, now, pc, user, signature, length, bytes, response, calls,
                 pageVars>>

AdminNext == SeqNext \/ ForgetUser

\* Requests in sequence on a server whose known users may be withdrawn at
\* any time.
SpecAdmin == Init /\ [][AdminNext]_vars

\* A server whose store holds the rows of some timeline, all older than the
\* clock, and a reader paging through it.
PageInit ==
  /\ PutInit
  /\ PageIdle
  /\ timeline \in Timelines
  /\ store = { timeline[i] : i \in 1..Len(timeline) }
  /\ now = Len(timeline) + 1

PageNext ==
  \/ IndexStart
  \/ FeedStart
  \/ IndexScan
  \/ FeedScan
  \/ IndexRender
  \/ FeedRender
  \/ FollowMore

SpecPage == PageInit /\ [][PageNext]_vars

AcceptNext ==
  \/ IndexStart
  \/ FeedStart
  \/ IndexScan
  \/ FeedScan
  \/ ScanAfterStop
  \/ IndexRender
  \/ FeedRender

\* The accumulators of the homepage and of the user feed under a backend
\* that may go on calling them after they signalled stop.
SpecAccept == PageInit /\ [][AcceptNext]_vars

ReadsNext ==
  \/ PageNext
  \/ UserStart
  \/ UserScan
  \/ UserRender

\* The same server and a reader of all three page endpoints: the homepage,
\* the user feed and the user timeline.
SpecReads == PageInit /\ [][ReadsNext]_vars

\* ------------------------------------------------- properties: put_item

\* Request p returns in this step.
Returns(p) == pc[p] # "done" /\ pc'[p] = "done"

\* Request p is a get_item (state after it returned).
IsGet(p) == calls[p] = <<"open", "user_item">>

\* A Content-Length header that passes the three header checks.
HeaderOk(h) == h.present /\ h.parses /\ h.value <= 32768

\* The bytes decode to a structurally valid item.
ValidItem(body) ==
  /\ merge_from_bytes(body) # None
  /\ validate(Unwrap(merge_from_bytes(body)))

\* How many times request p invoked backend operation op.
Invoked(p, op) == Cardinality({ i \in 1..Len(calls[p]) : calls[p][i] = op })

PutCreated(p) == pc[p] = "done" /\ response[p].outcome = "created"

\* C1: idempotent ingestion of requests served one after the other.
\* (First run) a request whose header passes,
\* whose user is known, whose received bytes verify under the signature and
\* decode to a valid item, for a (user, signature) not yet stored, returns
\* 'created' (201) unless the body stream or the backend fails or the quota
\* denies it, and one row is then stored under (user, signature).  (Second
\* run) a put_item for the (user, signature) of an earlier 'created' request
\* returns 'already-exists' (202), and exactly one row stays stored.
C1_IdempotentIngestion ==
  [][\A p \in Procs :
       /\ ( /\ Returns(p)
            /\ HeaderOk(length[p])
            /\ user[p] \in known
            /\ is_valid(signature[p], user[p], bytes[p])
            /\ ValidItem(bytes[p])
            /\ RowsOf(store, user[p], signature[p]) = {}
            /\ response'[p].outcome \notin {"backend-error", "quota-denied", "body-error"} )
          => /\ response'[p].outcome = "created"
             /\ response'[p].status = 201
             /\ Cardinality(RowsOf(store', user[p], signature[p])) = 1
             /\ \A r \in RowsOf(store', user[p], signature[p]) : r.item_bytes = bytes[p]
       /\ ( /\ Returns(p)
            /\ ~IsGet(p)'
            /\ HeaderOk(length'[p])
            /\ response'[p].outcome \notin {"backend-error", "bad-path"}
            /\ \E q \in Procs \ {p} :
                 /\ PutCreated(q)
                 /\ user[q] = user'[p]
                 /\ signature[q] = signature'[p] )
          => /\ response'[p].outcome = "already-exists"
             /\ response'[p].status = 202
             /\ store' = store
             /\ Cardinality(RowsOf(store', user'[p], signature'[p])) = 1
  ]_vars

\* C1 witness: one request was answered 'created', the other, for the same
\* (user, signature), 'already-exists', and one row is stored.
C1_Witness ==
  \E p \in Procs, q \in Procs :
    /\ PutCreated(p)
    /\ pc[q] = "done" /\ response[q].outcome = "already-exists"
    /\ user[q] = user[p] /\ signature[q] = signature[p]
    /\ Cardinality(RowsOf(store, user[p], signature[p])) = 1
    /\ Cardinality(store) = 1

\* C2: a request whose declared Content-Length exceeds 32768 ends 'too-large'
\* (413) with no body chunk taken and no backend operation invoked; a
\* declared length of exactly 32768 is never answered 'too-large'.
C2_TooLargeBeforeAnyRead ==
  \A p \in Procs :
    /\ (length[p].present /\ length[p].parses /\ length[p].value > 32768)
         => /\ pc[p] = "done"
            /\ response[p].outcome = "too-large"
            /\ response[p].status = 413
            /\ calls[p] = <<>>
            /\ bytes[p] = <<>>
    /\ (length[p].present /\ length[p].parses /\ length[p].value = 32768)
         => response[p].outcome # "too-large"

\* C2 witness: a request declaring 40000 bytes was answered 'too-large' and
\* one declaring exactly 32768 bytes was answered 'created'.
C2_Witness ==
  \E p \in Procs, q \in Procs :
    /\ pc[p] = "done" /\ length[p].value = 40000
    /\ response[p].outcome = "too-large"
    /\ PutCreated(q) /\ length[q].value = 32768

\* The outcomes C6 lists as rejections.
Rejections ==
  {"length-required", "bad-length", "too-large", "already-exists", "forbidden",
   "body-error", "invalid-signature", "invalid-item", "quota-denied"}

\* C6: a run that ends 'created' invoked save_user_item exactly once, a run
\* that ends in a rejection never invoked it, and the persisted rows are
\* exactly those written by the 'created' runs: no other run changes the
\* store.
C6_OneWriteOnSuccessOnly ==
  /\ \A p \in Procs :
       /\ Invoked(p, "save_user_item") <= 1
       /\ PutCreated(p) => Invoked(p, "save_user_item") = 1
       /\ (pc[p] = "done" /\ response[p].outcome \in Rejections)
            => Invoked(p, "save_user_item") = 0
  /\ \A r \in store : \E p \in Procs :
       PutCreated(p) /\ r = ItemRow(user[p], signature[p], bytes[p], r.received)
  /\ \A p \in Procs :
       PutCreated(p) => Cardinality(RowsOf(store, user[p], signature[p])) = 1

\* C6 witness: one run ended 'created', another was denied by the quota, and
\* one row is stored.
C6_Witness ==
  \E p \in Procs, q \in Procs :
    /\ PutCreated(p)
    /\ pc[q] = "done" /\ response[q].outcome = "quota-denied"
    /\ Cardinality(store) = 1

\* C7 (as claimed): a request that passed the length, existence and
\* authorization checks and whose received bytes do not verify under the
\* signature ends 'invalid-signature', answered Unauthorized (401) or
\* BadRequest (400), and the request persists no row.
C7_InvalidSignatureIsClientError ==
  [][\A p \in Procs :
       ( /\ pc[p] = "read"
         /\ Returns(p)
         /\ response'[p].outcome # "body-error"
         /\ ~is_valid(signature[p], user[p], bytes[p]) )
       => /\ response'[p].outcome = "invalid-signature"
          /\ response'[p].status \in {400, 401}
          /\ store' = store
  ]_vars

\* C8 (as claimed): the body bytes accumulated never exceed the declared
\* Content-Length, hence never 32768.
C8_BytesWithinDeclaredLength ==
  \A p \in Procs :
    pc[p] \in {"read", "quota", "save"}
      => /\ ByteLen(bytes[p]) <= length[p].value
         /\ ByteLen(bytes[p]) <= 32768

\* C9: get_item(user, signature) answers 200 with exactly the bytes of the
\* put_item that was answered 'created' for (user, signature), and 404 when
\* no put_item was answered 'created' for it.
C9_GetItemRoundTrip ==
  [][\A p \in Procs :
       ( /\ pc[p] = "idle"
         /\ Returns(p)
         /\ IsGet(p)'
         /\ response'[p].outcome # "backend-error" )
       => LET creators == { q \in Procs : /\ PutCreated(q)
                                           /\ user[q] = user'[p]
                                           /\ signature[q] = signature'[p] }
          IN  IF creators = {}
                THEN /\ response'[p].outcome = "not-found"
                     /\ response'[p].status = 404
                ELSE /\ response'[p].outcome = "found"
                     /\ response'[p].status = 200
                     /\ \A q \in creators : response'[p].body = bytes[q]
  ]_vars

\* C9 witness: a put_item was answered 'created' and a get_item for its
\* (user, signature) was answered 200 with the bytes put.
C9_Witness ==
  \E p \in Procs, q \in Procs :
    /\ PutCreated(q)
    /\ pc[p] = "done" /\ IsGet(p)
    /\ user[p] = user[q] /\ signature[p] = signature[q]
    /\ response[p].outcome = "found"
    /\ response[p].body = bytes[q]
    /\ bytes[q] # <<>>

\* ----------------------------------------------- properties: page reads

\* The rows the backend has for the request: those before its cursor.
Delivered == Query(timeline, max_time(pagination, now))

\* A stored row whose bytes decode.
Decodes(row) == Head(row.item_bytes).k # "garbage"

\* A stored row the display filter accepts: a post.
Accepted(row) == Head(row.item_bytes).k = "post"

AllDecode(rows) == \A i \in 1..Len(rows) : Decodes(rows[i])

\* The effective page size of a request.
PageSize(count) ==
  IF count = None THEN 20
  ELSE IF Unwrap(count) < 1 THEN 1
  ELSE IF Unwrap(count) > 100 THEN 100
  ELSE Unwrap(count)

\* The stored rows of a sequence of page items.
RowsShown(its) == [i \in 1..Len(its) |-> its[i].row]

\* The first n elements of a sequence.
Take(seq, n) == IF Len(seq) <= n THEN seq ELSE SubSeq(seq, 1, n)

PageServed == ppc = "done" /\ page.status = 200

\* C3 (as claimed): following the 'more' links from a request without a
\* cursor until a page carries none shows exactly the filter-accepted rows
\* of the timeline, in order, none repeated and none omitted.
C3_PagingGapless ==
  (PageServed /\ fromStart /\ page.more = None /\ AllDecode(timeline))
    => RowsShown(shown) = SelectSeq(timeline, Accepted)

\* C4 (as claimed): a page holds at most count items, 20 when count is
\* absent, for every count including 0.
C4_PageAtMostCount ==
  PageServed =>
    Len(page.items) <= IF pagination.count = None THEN 20
                       ELSE Unwrap(pagination.count)

\* C4 (amended): a page, and the accumulator at every step, holds at most
\* count items for every count >= 1, at most 1 item when count is 0, and at
\* most 20 when count is absent.
C4_PageAtMostCountOrOne ==
  /\ Len(items) <= IF pagination.count = None THEN 20
                   ELSE IF Unwrap(pagination.count) = 0 THEN 1
                   ELSE Unwrap(pagination.count)
  /\ Len(page.items) <= IF pagination.count = None THEN 20
                        ELSE IF Unwrap(pagination.count) = 0 THEN 1
                        ELSE Unwrap(pagination.count)

\* C4 witness: a request with count = 0 was served a page of one item.
C4_Witness ==
  PageServed /\ pagination.count = Some(0) /\ Len(page.items) = 1

\* C5: when the rows delivered all decode, has_more is true after the query
\* exactly when more rows are filter-accepted than the page holds.
C5_HasMoreIffAcceptedBeyondPage ==
  (PageServed /\ AllDecode(Delivered))
    => (has_more <=> Len(SelectSeq(Delivered, Accepted)) > PageSize(pagination.count))

\* C5 witness: the page is full, the backend went through all its rows, the
\* last of them filter-rejected, and has_more is false.
C5_Witness ==
  /\ PageServed
  /\ Len(page.items) = PageSize(pagination.count)
  /\ pos > Len(Delivered)
  /\ Delivered # <<>>
  /\ ~Accepted(Delivered[Len(Delivered)])
  /\ Decodes(Delivered[Len(Delivered)])
  /\ ~has_more

\* C10: the page is the first N filter-accepted rows of the delivered
\* sequence, in order, N the effective page size, each with its decoded
\* item.  On the scenario timeline, for the homepage without count and
\* cursor, these are the 20 most recent posts, has_more is true and the
\* 'more' cursor is the timestamp of the 20th post.
C10_PageIsFirstAcceptedRows ==
  PageServed =>
    /\ RowsShown(page.items) =
         Take(SelectSeq(Delivered, Accepted), PageSize(pagination.count))
    /\ \A i \in 1..Len(page.items) :
         page.items[i].item = Unwrap(merge_from_bytes(page.items[i].row.item_bytes))
    /\ ( /\ timeline = ScenarioTimeline
         /\ endpoint = "index"
         /\ pagination = [before |-> None, count |-> None] )
       => LET posts == SelectSeq(timeline, Accepted) IN
            /\ Len(page.items) = 20
            /\ RowsShown(page.items) = SubSeq(posts, 1, 20)
            /\ has_more
            /\ page.more = Some([before |-> posts[20].timestamp, count |-> None])

\* C10 witness: the homepage of the scenario timeline, without count and
\* cursor, was served with 20 items.
C10_Witness ==
  /\ PageServed
  /\ timeline = ScenarioTimeline
  /\ endpoint = "index"
  /\ pagination = [before |-> None, count |-> None]
  /\ Len(page.items) = 20
  /\ Len(SelectSeq(timeline, LAMBDA r : ~Accepted(r))) >= 5

\* C11: the page size the homepage and the user feed work with is 20 when
\* count is absent, 1 for count = 0, count for 1..100 and 100 above: the
\* accumulator never holds more items than that, and it reports has_more
\* only when it holds exactly that many.
C11_EffectivePageSize ==
  ppc # "idle" =>
    /\ max_items(pagination.count) = PageSize(pagination.count)
    /\ Len(items) <= PageSize(pagination.count)
    /\ has_more => Len(items) = PageSize(pagination.count)
    /\ (PageServed /\ Len(page.items) < PageSize(pagination.count))
         => Len(page.items) = Len(SelectSeq(Delivered, Accepted))

\* C11 witness: a request with count = 150 over more than 100 posts was
\* served a page of 100 items, with more to come.
C11_Witness ==
  /\ PageServed
  /\ pagination.count = Some(150)
  /\ Len(page.items) = 100
  /\ has_more

\* C12 (as claimed): a page read of any of the three endpoints carries the
\* message 'Nothing to display' exactly when its page is empty and the
\* request had no before cursor, 'No more items to display.' exactly when
\* its page is empty and the request had one, and no message exactly when
\* its page is not empty.
C12_EmptyResultMessage ==
  PageServed =>
    /\ (page.display_message = Some("Nothing to display"))
         <=> (page.items = <<>> /\ pagination.before = None)
    /\ (page.display_message = Some("No more items to display."))
         <=> (page.items = <<>> /\ pagination.before # None)
    /\ (page.display_message = None) <=> (page.items # <<>>)

\* The payload type the bytes of a stored row carry.
KindOf(row) == Head(row.item_bytes).k

\* C13: every item of a page of the homepage, the user feed or the user
\* timeline, and every item the accumulator holds on the way, is a post:
\* profile updates and items of no recognized payload type never appear.
C13_OnlyPostsInPages ==
  /\ \A i \in 1..Len(items) :
       /\ items[i].item.item_type = Some("post")
       /\ KindOf(items[i].row) = "post"
  /\ \A i \in 1..Len(page.items) :
       /\ page.items[i].item.item_type = Some("post")
       /\ KindOf(page.items[i].row) = "post"

\* C13 witness: the user timeline was served a page with an item after the
\* backend delivered a profile update and an item of unrecognized type.
C13_Witness ==
  /\ PageServed
  /\ endpoint = "user"
  /\ page.items # <<>>
  /\ \E i \in 1..Len(Delivered), j \in 1..Len(Delivered) :
       /\ i < pos /\ j < pos
       /\ KindOf(Delivered[i]) = "profile"
       /\ KindOf(Delivered[j]) = "unknown"

\* C14: a page of the homepage or of the user feed carries a 'more' link
\* exactly when has_more is true, and the link's before parameter is the
\* timestamp of the last item of the page.
C14_MoreLinkAtLastItem ==
  PageServed =>
    /\ IsSome(page.more) <=> has_more
    /\ IsSome(page.more) =>
         /\ page.items # <<>>
         /\ Unwrap(page.more).before =
              page.items[Len(page.items)].item.timestamp_ms_utc
         /\ Unwrap(page.more).before = page.items[Len(page.items)].row.timestamp

\* C14 witness: a page with a 'more' link, where the scan went on past the
\* last item of the page over a filter-rejected row to the row that stopped
\* it, both of them older than the last item.
C14_Witness ==
  /\ PageServed
  /\ has_more
  /\ IsSome(page.more)
  /\ pos > 2
  /\ ~Accepted(Delivered[pos - 1]) /\ Decodes(Delivered[pos - 1])
  /\ Delivered[pos - 1].timestamp < Unwrap(page.more).before
  /\ Delivered[pos].timestamp < Unwrap(page.more).before

\* C15: a page is served only if every row the backend delivered for it
\* decoded, the row that stopped the scan included; once a delivered row
\* fails to decode the request ends with an error that carries no items,
\* also when the page was already full.
C15_CorruptRowFailsPage ==
  /\ (ppc \in {"scan", "render"} \/ PageServed) =>
       \A i \in 1..Len(Delivered) : i < pos => Decodes(Delivered[i])
  /\ (ppc = "render" \/ PageServed) =>
       \A i \in 1..Len(Delivered) : i = pos => Decodes(Delivered[i])
  /\ (ppc = "done" /\ ~PageServed) =>
       /\ page = ErrorPage
       /\ page.items = <<>>
       /\ page.status = ErrorStatus

\* C15 witness: the request failed on a corrupt row delivered when the page
\* was already full, a filter-accepted row still to come after it.
C15_Witness ==
  /\ ppc = "done"
  /\ page = ErrorPage
  /\ Len(items) = PageSize(pagination.count)
  /\ pos < Len(Delivered)
  /\ ~Decodes(Delivered[pos])
  /\ Accepted(Delivered[pos + 1])

\* C16: only requests whose bytes verified and decoded to a valid item get
\* as far as the quota check; when the check denies one, the request is
\* answered InsufficientStorage (507) with the backend's deny reason as its
\* message, the store is left as it was, the quota check was the request's
\* last backend operation and save_user_item was never invoked for it.
C16_QuotaDeniedNotSaved ==
  [][\A p \in Procs :
       ( /\ pc[p] = "quota"
         /\ Returns(p)
         /\ response'[p].outcome # "backend-error" )
       => /\ is_valid(signature[p], user[p], bytes[p])
          /\ ValidItem(bytes[p])
          /\ response'[p].outcome = "quota-denied"
          /\ response'[p].status = 507
          /\ response'[p].message \in QuotaReasons
          /\ store' = store
          /\ calls'[p][Len(calls'[p])] = "quota_check_item"
          /\ Invoked(p, "quota_check_item")' = 1
          /\ Invoked(p, "save_user_item")' = 0
  ]_vars

\* C16 witness: a request with a verifying signature was denied by the
\* quota check and nothing is stored.
C16_Witness ==
  \E p \in Procs :
    /\ pc[p] = "done"
    /\ response[p].outcome = "quota-denied"
    /\ response[p].message = "quota exceeded"
    /\ \E d \in SignedDocs : signature[p] = Sign(user[p], d) /\ ValidItem(d)
    /\ store = {}

\* C17 (as claimed): when a poll of the body stream yields an error, after
\* any number of chunks, the request is answered BadRequest (400), the
\* store is left as it was and save_user_item is never invoked for it.
C17_BodyErrorIsBadRequest ==
  [][\A p \in Procs :
       ( /\ pc[p] = "read"
         /\ Returns(p)
         /\ response'[p].outcome = "body-error" )
       => /\ response'[p].status = 400
          /\ store' = store
          /\ Invoked(p, "save_user_item")' = 0
  ]_vars

\* C18: in every run of put_item the decoder and the structural validation
\* (a run that ends 'invalid-item' or goes on to the quota check), the
\* quota check and save_user_item are applied only to bytes that verify
\* under the request's signature and user, and every row a run writes
\* holds such bytes.
C18_VerifyBeforeUse ==
  [][\A p \in Procs :
       /\ ( /\ pc[p] = "read"
            /\ \/ pc'[p] = "quota"
               \/ Returns(p) /\ response'[p].outcome = "invalid-item" )
          => is_valid(signature[p], user[p], bytes[p])
       /\ ( /\ pc[p] \in {"quota", "save"}
            /\ calls'[p] # calls[p] )
          => /\ is_valid(signature[p], user[p], bytes[p])
             /\ \A r \in store' \ store :
                  /\ r.item_bytes = bytes[p]
                  /\ is_valid(r.signature, r.user, r.item_bytes)
  ]_vars

\* C18 witness: a run ended 'invalid-item' on bytes that verify but do not
\* pass the decoder and the validation, and another wrote a row.
C18_Witness ==
  \E p \in Procs, q \in Procs :
    /\ pc[p] = "done"
    /\ response[p].outcome = "invalid-item"
    /\ \E d \in SignedDocs : signature[p] = Sign(user[p], d) /\ ~ValidItem(d)
    /\ PutCreated(q)
    /\ store # {}

\* C19: a put_item with a valid declared length goes on to the backend, and
\* when a row is stored under its (user, signature) at the existence check
\* it is answered 'already-exists' (202) there, whether or not the user is
\* still known, unless the backend fails: the store is left as it was, and
\* the run called neither user_known nor polled the body, so nothing was
\* read or verified.
C19_ExistenceBeforeAuthorization ==
  [][\A p \in Procs :
       /\ ( /\ pc[p] = "idle" /\ pc'[p] # "idle"
            /\ ~IsGet(p)'
            /\ HeaderOk(length'[p]) )
          => pc'[p] = "open" /\ calls'[p] = <<>>
       /\ ( /\ pc[p] = "exists"
            /\ calls'[p] # calls[p]
            /\ user_item_exists(store, user[p], signature[p])
            /\ response'[p].outcome # "backend-error" )
          => /\ Returns(p)
             /\ response'[p].outcome = "already-exists"
             /\ response'[p].status = 202
             /\ store' = store
             /\ calls'[p] = <<"open", "user_item_exists">>
             /\ bytes'[p] = <<>>
       /\ ( Returns(p) /\ response'[p].outcome = "already-exists" )
          => /\ pc[p] = "exists"
             /\ Invoked(p, "user_known")' = 0
             /\ Invoked(p, "body.next")' = 0
  ]_vars

\* C19 witness: a request of a user who is no longer known, for a stored
\* (user, signature), was answered 'already-exists'.
C19_Witness ==
  \E p \in Procs :
    /\ pc[p] = "done"
    /\ response[p].outcome = "already-exists"
    /\ user[p] \notin known
    /\ Cardinality(RowsOf(store, user[p], signature[p])) = 1

\* C20 (as claimed): every persisted row holds bytes that verify under the
\* row's signature and user and decode to a structurally valid item, its
\* timestamp is that item's timestamp_ms_utc, and its bytes number at most
\* 32768.
C20_PersistedRowsValid ==
  \A r \in store :
    /\ is_valid(r.signature, r.user, r.item_bytes)
    /\ ValidItem(r.item_bytes)
    /\ r.timestamp = Unwrap(merge_from_bytes(r.item_bytes)).timestamp_ms_utc
    /\ ByteLen(r.item_bytes) <= 32768

RECURSIVE Walk(_, _, _, _, _)
\* A whole backend query: the rows go to the endpoint's callback one by one
\* until it stops or errs, or no row is left.
Walk(ep, options, rows, its, hm) ==
  IF rows = <<>> THEN [items |-> its, has_more |-> hm, ret |-> "ok"]
  ELSE LET r == Callback(ep, options, its, hm, Head(rows)) IN
       IF r.ret = "continue" THEN Walk(ep, options, Tail(rows), r.items, r.has_more)
       ELSE IF r.ret = "stop" THEN [items |-> r.items, has_more |-> r.has_more, ret |-> "ok"]
       ELSE [items |-> <<>>, has_more |-> FALSE, ret |-> "error"]

\* What an endpoint makes of a row sequence: the page items, the has_more
\* flag and the empty-result message, or an error.
Outcome(ep, options, rows) ==
  LET w == Walk(ep, options, rows, <<>>, FALSE) IN
  [ret |-> w.ret, items |-> w.items, has_more |-> w.has_more,
   display_message |->
     IF w.ret = "error" THEN None
     ELSE IF ep = "index" THEN IndexMessage(w.items, options)
     ELSE IF ep = "feed" THEN message(w.items, options)
     ELSE None]

\* C21 (as claimed): for the rows delivered to a served page read and its
\* before and count parameters, the homepage and the user feed produce the
\* same items, has_more flag and empty-result message as the endpoint that
\* served it, and so does the user timeline for a read without parameters
\* (it takes none).
C21_EndpointsEquivalent ==
  PageServed =>
    LET own == Outcome(endpoint, pagination, Delivered) IN
    /\ own.ret = "ok"
    /\ own.items = page.items
    /\ own.has_more = has_more
    /\ own.display_message = page.display_message
    /\ Outcome("index", pagination, Delivered) = Outcome("feed", pagination, Delivered)
    /\ pagination = [before |-> None, count |-> None]
         => Outcome("user", pagination, Delivered) = Outcome("index", pagination, Delivered)

\* C22 (as claimed): of two concurrent put_item requests for the same
\* (user, signature), neither of which the backend fails, at most one
\* invokes save_user_item and at most one is answered 'created'.
C22_ConcurrentSamePut ==
  \A p \in Procs, q \in Procs :
    ( /\ p # q
      /\ user[p] = user[q]
      /\ signature[p] = signature[q]
      /\ response[p].outcome # "backend-error"
      /\ response[q].outcome # "backend-error" )
    => /\ Invoked(p, "save_user_item") + Invoked(q, "save_user_item") <= 1
       /\ ~(PutCreated(p) /\ PutCreated(q))

\* The row the backend delivers in a step of the scan: the next one, or the
\* one after the row the callback stopped on.
RowDelivered == IF ppc = "scan" THEN Delivered[pos] ELSE Delivered[pos + 1]

\* The backend delivers a row in this step.
Delivery ==
  /\ ppc \in {"scan", "render"}
  /\ (IF ppc = "scan" THEN pos ELSE pos + 1) <= Len(Delivered)
  /\ <<ppc, pos>>' # <<ppc, pos>>
  /\ ~(ppc' = "done" /\ page'.status = 200)

\* C23: on every call of the accumulator, calls after it signalled stop
\* included: it holds at most the effective page size of items afterwards,
\* all of them filter-accepted; a filter-rejected or corrupt row is not
\* retained; a filter-accepted row is retained while the page is not full,
\* and when the page is full it is not retained, has_more is set and the
\* answer is stop, so the scan is never asked to continue past a
\* filter-accepted row beyond the page.
C23_AccumulatorBounded ==
  [][Delivery =>
       /\ Len(items') <= PageSize(pagination.count)
       /\ \A i \in 1..Len(items') : Accepted(items'[i].row)
       /\ ~Accepted(RowDelivered) => items' = items
       /\ (Accepted(RowDelivered) /\ Len(items) < PageSize(pagination.count))
            => /\ Len(items') = Len(items) + 1
               /\ items'[Len(items')].row = RowDelivered
               /\ ppc' = "scan"
       /\ (Accepted(RowDelivered) /\ Len(items) >= PageSize(pagination.count))
            => /\ items' = items
               /\ has_more'
               /\ ppc' = "render"
  ]_vars

\* C23 witness: the accumulator was called again after it signalled stop,
\* two filter-accepted rows beyond the page were delivered to it, and it
\* holds exactly a page.
C23_Witness ==
  /\ ppc = "render"
  /\ has_more
  /\ pos <= Len(Delivered)
  /\ Len(items) = PageSize(pagination.count)
  /\ Len(SelectSeq(SubSeq(Delivered, 1, pos), Accepted))
       >= PageSize(pagination.count) + 2

\* C24: whenever has_more is true the accumulator holds exactly the
\* effective page size of items, at least one; a page built with has_more
\* true therefore carries a 'more' link (the branch of more_items_link for
\* has_more with no item is never taken); and has_more, once true, stays
\* true until the request ends.
C24_HasMoreMeansFullPage ==
  [][/\ has_more' =>
          /\ Len(items') = PageSize(pagination'.count)
          /\ Len(items') >= 1
     /\ (has_more /\ ppc \in {"scan", "render"}) => has_more'
     /\ (has_more /\ ppc = "render" /\ ppc' = "done" /\ page'.status = 200)
          => /\ IsSome(page'.more)
             /\ page'.items # <<>>
  ]_vars

\* C24 witness: a page was built with has_more true after the accumulator
\* was called with further rows past its stop.
C24_Witness ==
  /\ PageServed
  /\ has_more
  /\ IsSome(page.more)
  /\ pos <= Len(Delivered)
  /\ Len(SelectSeq(SubSeq(Delivered, 1, pos), Accepted)) >= Len(page.items) + 2

====
